---- MODULE Spec2Model ----
(***************************************************************************)
(* The OpenAI plugin of src/openai/main.ts: the instruction store          *)
(* (InstructionsDataFile), the two command handlers                        *)
(* (InstructionModal.onSubmit, FindInstructionModal.onChooseSuggestion)    *)
(* and the completion fan-out (Completion.post under Promise.all).         *)
(*                                                                         *)
(* A handler is an async function: it runs atomically between two          *)
(* suspension points (await), so every action below is the code between    *)
(* one await being resumed and the next await being reached.  Strings are  *)
(* sequences of one-character strings.                                     *)
(***************************************************************************)
EXTENDS Integers, Sequences, FiniteSets, TLC

\* ------------------------------------------------------------------ bounds
MaxInvocations == 3    \* handler invocations started in one run
MaxClock == 2          \* last millisecond Date.now() reaches in one run

\* Handlers in progress at once: nothing in the code serializes the handlers,
\* and two of them are what the hazards between invocations take.  (A third
\* slot multiplies the states beyond what a run can cover.)
Slots == { 1, 2 }

\* ------------------------------------------------------------ JS values
Undefined == [t |-> "undefined"]          \* undefined (also: no value yet)
Null == [t |-> "null"]                    \* message.content === null
Pending == [t |-> "pending"]              \* a promise not settled yet
Str(s) == [t |-> "string", s |-> s]       \* a string value
NotReplaced == [t |-> "none"]             \* replaceSelection was not called

NL == "\n"
Delimiter == <<NL, NL, "#", "#", "#", NL, NL>>
NullText == <<"n", "u", "l", "l">>        \* what  "" + null  yields

\* String.prototype.toLowerCase, on the alphabet of the model
LowerChar(c) == CASE c = "S" -> "s" [] c = "T" -> "t" [] OTHER -> c
toLowerCase(s) == [k \in 1..Len(s) |-> LowerChar(s[k])]

\* String.prototype.split("\n"): the pieces between the newlines, the empty
\* pieces included ("a\nb\n" gives "a", "b", "")
RECURSIVE SplitFrom(_, _, _)
SplitFrom(s, k, cur) ==
    IF k > Len(s) THEN <<cur>>
    ELSE IF s[k] = NL THEN <<cur>> \o SplitFrom(s, k + 1, <<>>)
    ELSE SplitFrom(s, k + 1, Append(cur, s[k]))
Split(s) == SplitFrom(s, 1, <<>>)

\* ---------------------------------------------------------------- inputs
\* what the user types into the instruction text area
Texts == { <<"S">>, <<"s">>, <<"t">> }
\* what the editor's selection holds when a handler starts
Selections == { <<>>, <<"x">>, <<"x", NL, "y", NL>> }
\* how a completion request may settle
Outcomes == { "content", "null", "error" }

\* --------------------------------------------------------- the data file
\* The content of the data file: the text onload writes, or a JSON text
\* (held as the value it parses to).
BootstrapContent == [kind |-> "text", raw |-> "{'instructions': []}"]
FileAbsent == [kind |-> "absent"]
JSONstringify(value) == [kind |-> "json", value |-> value]
Parses(content) == content.kind = "json"
JSONparse(content) == content.value

\* A data file left by an earlier session
EmptyDocument == JSONstringify([instructions |-> <<>>])
EarlierDocument ==
    JSONstringify([instructions |->
        << [id |-> 0, text |-> <<"S">>, usageCount |-> 1] >>])

VARIABLES
    loaded,            \* onload has run
    file,              \* the data file (absent, or its content)
    now,               \* what Date.now() returns
    started,           \* handler invocations started so far
    pc,                \* per slot: where the handler is suspended
    command,           \* per slot: "instruct" (InstructionModal) or "find"
    multiple,          \* per slot: this.multiple
    instruction,       \* per slot: the instruction text of the invocation
    currentSelection,  \* per slot: view.editor.getSelection() at the start
    instructionObj,    \* per slot: the record found, or the record to append
    data,              \* per slot: the serialized document handed to vault.modify
    prompts,           \* per slot: the payloads of the requests issued
    completions,       \* per slot: the result slots of Promise.all
    replaced,          \* per slot: the argument of view.editor.replaceSelection
    operation,         \* per slot: the store mutation called ("none", "update", "append")
    modified           \* per slot: vault.modify calls completed by the invocation

vars == << loaded, file, now, started, pc, command, multiple, instruction,
           currentSelection, instructionObj, data, prompts, completions,
           replaced, operation, modified >>

storeVars == << loaded, file, now >>
inputVars == << command, multiple, instruction, currentSelection >>

\* ----------------------------------------------------- InstructionsDataFile
\* loadInstructions: the parsed document; Undefined when the file is missing.
\* (A content that does not parse makes JSON.parse throw: see LoadFails.)
loadInstructions(f) ==
    IF f.kind = "absent" THEN Undefined ELSE JSONparse(f)

\* a caller of loadInstructions that indexes the result throws when the file
\* is missing (undefined['instructions']) or does not parse (SyntaxError)
LoadFails(f) == f.kind = "absent" \/ ~Parses(f)

\* Array.prototype.find with the predicate of findInstruction
RECURSIVE FindFrom(_, _, _)
FindFrom(instructions, text, k) ==
    IF k > Len(instructions) THEN Undefined
    ELSE IF toLowerCase(instructions[k].text) = toLowerCase(text)
         THEN instructions[k]
         ELSE FindFrom(instructions, text, k + 1)
findInstruction(instructions, text) == FindFrom(instructions, text, 1)

\* Array.prototype.findIndex with the predicate of updateInstruction
\* (0-based, -1 when no record has the id)
RECURSIVE FindIndexFrom(_, _, _)
FindIndexFrom(instructions, id, k) ==
    IF k > Len(instructions) THEN -1
    ELSE IF instructions[k].id = id THEN k - 1
    ELSE FindIndexFrom(instructions, id, k + 1)
findIndex(instructions, id) == FindIndexFrom(instructions, id, 1)

\* data['instructions'][instructionIndex] = instruction, as JSON.stringify
\* then sees the array: index -1 sets a property "-1" that is no element
ArrayAssign(instructions, index, obj) ==
    IF index = -1 THEN instructions
    ELSE [instructions EXCEPT ![index + 1] = obj]

\* the document updateInstruction serializes
updateInstruction(document, obj) ==
    [document EXCEPT !.instructions =
        ArrayAssign(@, findIndex(@, obj.id), obj)]

\* the record appendInstruction builds
NewInstruction(text, clock) == [id |-> clock, text |-> text, usageCount |-> 1]

\* the document appendInstruction serializes
appendInstruction(document, obj) ==
    [document EXCEPT !.instructions = Append(@, obj)]

\* (mutant) a write that keeps the records of the current content and adds
\* to them the last record of the content written
VaultModifyMerging(current, content) ==
    IF Parses(current) /\ Parses(content)
       /\ Len(JSONparse(content).instructions) > 0
    THEN JSONstringify([JSONparse(current) EXCEPT !.instructions =
            Append(@, JSONparse(content).instructions[
                          Len(JSONparse(content).instructions)])])
    ELSE content

\* vault.modify(file, content): the whole content is replaced
VaultModify(current, content) == content


\* -------------------------------------------------------------- Completion
\* Completion.post resolves with response.choices[0].message.content: the
\* answer of the remote API to the prompt, a text determined by the prompt
Reply(prompt) == <<"~">> \o prompt

\* (mutant) the delimiter is left out of the payload of an empty chunk
PromptsOmittingDelimiter(text, selection, mult) ==
    IF selection # <<>> /\ mult
    THEN LET selectionChunks == Split(selection)
         IN  [k \in 1..Len(selectionChunks) |->
                 IF selectionChunks[k] = <<>> THEN text
                 ELSE text \o Delimiter \o selectionChunks[k]]
    ELSE IF selection # <<>>
    THEN << text \o Delimiter \o selection >>
    ELSE << text >>

\* the payloads onSubmit and onChooseSuggestion build: one per chunk in
\* multiple mode, one for the whole selection in single mode, the bare
\* instruction when nothing is selected
Prompts(text, selection, mult) ==
    IF selection # <<>> /\ mult
    THEN LET selectionChunks == Split(selection)
         IN  [k \in 1..Len(selectionChunks) |->
                 text \o Delimiter \o selectionChunks[k]]
    ELSE IF selection # <<>>
    THEN << text \o Delimiter \o selection >>
    ELSE << text >>

\* (mutant) the value is stored in the first result slot still empty: the
\* results come in the order the requests settle
RECURSIVE FirstPendingFrom(_, _)
FirstPendingFrom(results, j) ==
    IF j >= Len(results) \/ results[j] = Pending THEN j
    ELSE FirstPendingFrom(results, j + 1)
PromiseAllStoreInArrivalOrder(results, k, value) ==
    [results EXCEPT ![FirstPendingFrom(results, 1)] = value]

\* Promise.all stores the value of the k-th promise in the k-th result slot
PromiseAllStore(results, k, value) == [results EXCEPT ![k] = value]

\* JavaScript truthiness of a completion: null and "" are falsy
Truthy(c) == c.t = "string" /\ c.s # <<>>

\* string concatenation with a completion: null becomes the text "null"
ToText(c) == IF c.t = "string" THEN c.s ELSE NullText

\* the loop that builds allCompletions
RECURSIVE AllCompletionsFrom(_, _, _)
AllCompletionsFrom(selectionChunks, results, k) ==
    IF k > Len(selectionChunks) THEN <<>>
    ELSE (IF Truthy(results[k]) /\ selectionChunks[k] # <<>>
          THEN selectionChunks[k] \o <<NL>> \o results[k].s \o <<NL, NL>>
          ELSE IF Truthy(results[k]) THEN results[k].s
          ELSE <<>>)
         \o AllCompletionsFrom(selectionChunks, results, k + 1)
AllCompletions(selectionChunks, results) ==
    AllCompletionsFrom(selectionChunks, results, 1)

\* what the handler passes to view.editor.replaceSelection once its
\* completions are there (NotReplaced: it does not call it)
Replacement(cmd, mult, selection, results) ==
    IF selection # <<>> /\ mult
    THEN Str(AllCompletions(Split(selection), results))
    ELSE IF selection # <<>>
    THEN IF cmd = "instruct"
         THEN Str(selection \o <<NL>> \o ToText(results[1]))
         ELSE IF Truthy(results[1])
              THEN Str(selection \o <<NL>> \o results[1].s)
              ELSE NotReplaced
    ELSE Str(IF Truthy(results[1]) THEN results[1].s ELSE <<>>)

\* ------------------------------------------------------------------- Init
Init ==
    /\ loaded = FALSE
    /\ file \in { FileAbsent, EmptyDocument, EarlierDocument }
    /\ now = 1
    /\ started = 0
    /\ pc = [i \in Slots |-> "idle"]
    /\ command = [i \in Slots |-> "instruct"]
    /\ multiple = [i \in Slots |-> FALSE]
    /\ instruction = [i \in Slots |-> <<>>]
    /\ currentSelection = [i \in Slots |-> <<>>]
    /\ instructionObj = [i \in Slots |-> Undefined]
    /\ data = [i \in Slots |-> Undefined]
    /\ prompts = [i \in Slots |-> <<>>]
    /\ completions = [i \in Slots |-> <<>>]
    /\ replaced = [i \in Slots |-> NotReplaced]
    /\ operation = [i \in Slots |-> "none"]
    /\ modified = [i \in Slots |-> 0]

\* ---------------------------------------------------------------- actions
\* OpenAIPlugin.onload: the data file is created when it does not exist
onload ==
    /\ ~loaded
    /\ loaded' = TRUE
    /\ file' = IF file.kind = "absent" THEN BootstrapContent ELSE file
    /\ UNCHANGED << now, started, pc, inputVars, instructionObj, data, prompts,
                    completions, replaced, operation, modified >>

\* the clock behind Date.now() advances
Tick ==
    /\ now < MaxClock
    /\ now' = now + 1
    /\ UNCHANGED << loaded, file, started, pc, inputVars, instructionObj, data,
                    prompts, completions, replaced, operation, modified >>

\* the data file is removed from the vault, or put back with the content of
\* its first creation, outside the plugin (loadInstructions tests for the
\* file on every read)
vaultChanges(content) ==
    /\ loaded
    /\ file # content
    /\ file' = content
    /\ UNCHANGED << loaded, now, started, pc, inputVars, instructionObj, data,
                    prompts, completions, replaced, operation, modified >>

\* an invocation takes the lowest free slot (slots are interchangeable)
Free(i) == pc[i] = "idle" /\ \A j \in Slots : j < i => pc[j] # "idle"

\* the start of a handler, up to its first await (the read of findInstruction)
Begin(i, cmd, mult, text, selection) ==
    /\ pc' = [pc EXCEPT ![i] = "findInstruction"]
    /\ command' = [command EXCEPT ![i] = cmd]
    /\ multiple' = [multiple EXCEPT ![i] = mult]
    /\ instruction' = [instruction EXCEPT ![i] = text]
    /\ currentSelection' = [currentSelection EXCEPT ![i] = selection]

\* InstructionModal.onSubmit is called (the Submit button) from the command
\* "Instruct" or "Instruct - Multiple"; without an active markdown view it
\* returns at once
onSubmit(i, mult, selection) ==
    /\ loaded /\ Free(i) /\ started < MaxInvocations
    /\ started' = started + 1
    /\ \E view \in BOOLEAN, text \in Texts :
          IF view THEN Begin(i, "instruct", mult, text, selection)
                  ELSE UNCHANGED << pc, inputVars >>
    /\ UNCHANGED << storeVars, instructionObj, data, prompts, completions,
                    replaced, operation, modified >>

\* getSuggestions: the records read from the data file that match the query
\* (every record matches the empty query; their order does not matter here,
\* the user may choose any of them)
getSuggestions(f) == JSONparse(f).instructions

\* FindInstructionModal.onChooseSuggestion is called with one of the records
\* getSuggestions offered
onChooseSuggestion(i, mult, selection) ==
    /\ loaded /\ Free(i) /\ started < MaxInvocations
    /\ ~LoadFails(file)
    /\ started' = started + 1
    /\ \E view \in BOOLEAN, k \in 1..Len(getSuggestions(file)) :
          IF view THEN Begin(i, "find", mult,
                             getSuggestions(file)[k].text, selection)
                  ELSE UNCHANGED << pc, inputVars >>
    /\ UNCHANGED << storeVars, instructionObj, data, prompts, completions,
                    replaced, operation, modified >>

\* the handler goes on to its completion requests: all of them are issued
\* before the handler awaits any
IssueRequests(i) ==
    LET ps == Prompts(instruction[i], currentSelection[i], multiple[i])
    IN  /\ prompts' = [prompts EXCEPT ![i] = ps]
        /\ completions' = [completions EXCEPT ![i] =
                              [k \in 1..Len(ps) |-> Pending]]
        /\ pc' = [pc EXCEPT ![i] = "post"]

\* the handler's promise rejects: an exception nothing catches
Reject(i) ==
    /\ pc' = [pc EXCEPT ![i] = "rejected"]
    /\ UNCHANGED << prompts, completions >>

\* the read of findInstruction resumes: the lookup, then the call of
\* updateInstruction or appendInstruction up to its own read
findInstructionResumes(i) ==
    /\ pc[i] = "findInstruction"
    /\ IF LoadFails(file)
       THEN /\ Reject(i)
            /\ UNCHANGED << instructionObj, operation >>
       ELSE LET found == findInstruction(loadInstructions(file).instructions,
                                         instruction[i])
            IN  IF found # Undefined
                THEN /\ instructionObj' = [instructionObj EXCEPT ![i] =
                            [found EXCEPT !.usageCount = @ + 1]]
                     /\ operation' = [operation EXCEPT ![i] = "update"]
                     /\ pc' = [pc EXCEPT ![i] = "updateInstruction"]
                     /\ UNCHANGED << prompts, completions >>
                ELSE IF command[i] = "instruct"
                THEN /\ instructionObj' = [instructionObj EXCEPT ![i] =
                            NewInstruction(instruction[i], now)]
                     /\ operation' = [operation EXCEPT ![i] = "append"]
                     /\ pc' = [pc EXCEPT ![i] = "appendInstruction"]
                     /\ UNCHANGED << prompts, completions >>
                ELSE /\ IssueRequests(i)
                     /\ UNCHANGED << instructionObj, operation >>
    /\ UNCHANGED << storeVars, started, inputVars, data, replaced, modified >>

\* (mutant) vault.modify is not awaited: the handler goes on to its requests
\* while the write is still outstanding
updateInstructionNotAwaited(i) ==
    /\ pc[i] = "updateInstruction"
    /\ ~LoadFails(file)
    /\ data' = [data EXCEPT ![i] = JSONstringify(
           updateInstruction(loadInstructions(file), instructionObj[i]))]
    /\ IssueRequests(i)
    /\ UNCHANGED << storeVars, started, inputVars, instructionObj, replaced,
                    operation, modified >>

\* the read of updateInstruction resumes: the record is put in place and the
\* document serialized, up to the await of vault.modify
updateInstructionResumes(i) ==
    /\ pc[i] = "updateInstruction"
    /\ IF LoadFails(file)
       THEN /\ Reject(i)
            /\ UNCHANGED data
       ELSE /\ data' = [data EXCEPT ![i] = JSONstringify(
                  updateInstruction(loadInstructions(file), instructionObj[i]))]
            /\ pc' = [pc EXCEPT ![i] = "update.modify"]
            /\ UNCHANGED << prompts, completions >>
    /\ UNCHANGED << storeVars, started, inputVars, instructionObj, replaced,
                    operation, modified >>

\* (mutant) appendInstruction without its try/catch: a failing load rejects
\* the caller
appendInstructionUncaught(i) ==
    /\ pc[i] = "appendInstruction"
    /\ IF LoadFails(file)
       THEN /\ Reject(i)
            /\ UNCHANGED << instructionObj, data >>
       ELSE /\ data' = [data EXCEPT ![i] = JSONstringify(
                  appendInstruction(loadInstructions(file), instructionObj[i]))]
            /\ pc' = [pc EXCEPT ![i] = "append.modify"]
            /\ UNCHANGED << instructionObj, prompts, completions >>
    /\ UNCHANGED << storeVars, started, inputVars, replaced, operation,
                    modified >>

\* the read of appendInstruction resumes: the record is pushed and the
\* document serialized, up to the await of vault.modify; a failure is caught,
\* appendInstruction returns and the handler goes on
appendInstructionResumes(i) ==
    /\ pc[i] = "appendInstruction"
    /\ IF LoadFails(file)
       THEN /\ IssueRequests(i)
            /\ instructionObj' = [instructionObj EXCEPT ![i] = Undefined]
            /\ UNCHANGED data
       ELSE /\ data' = [data EXCEPT ![i] = JSONstringify(
                  appendInstruction(loadInstructions(file), instructionObj[i]))]
            /\ pc' = [pc EXCEPT ![i] = "append.modify"]
            /\ UNCHANGED << instructionObj, prompts, completions >>
    /\ UNCHANGED << storeVars, started, inputVars, replaced, operation,
                    modified >>

\* vault.modify completes (in updateInstruction or appendInstruction): the
\* file holds the serialized document, and the handler goes on
modifyResumes(i) ==
    /\ pc[i] \in { "update.modify", "append.modify" }
    /\ file' = VaultModify(file, data[i])
    /\ modified' = [modified EXCEPT ![i] = @ + 1]
    /\ data' = [data EXCEPT ![i] = Undefined]
    /\ instructionObj' = [instructionObj EXCEPT ![i] = Undefined]
    /\ IssueRequests(i)
    /\ UNCHANGED << loaded, now, started, inputVars, replaced, operation >>

\* vault.modify rejects and the file keeps its content: appendInstruction
\* catches and logs the error, returns, and the handler goes on;
\* updateInstruction has no try/catch and the rejection reaches the handler
modifyFails(i) ==
    /\ pc[i] \in { "update.modify", "append.modify" }
    /\ data' = [data EXCEPT ![i] = Undefined]
    /\ instructionObj' = [instructionObj EXCEPT ![i] = Undefined]
    /\ IF pc[i] = "append.modify" THEN IssueRequests(i) ELSE Reject(i)
    /\ UNCHANGED << storeVars, started, inputVars, replaced, operation,
                    modified >>

\* the k-th completion request settles.  A rejection rejects Promise.all (or
\* the single await) and with it the handler; the last value to arrive lets
\* the handler build its text and replace the selection
postSettles(i, k, outcome) ==
    /\ pc[i] = "post"
    /\ completions[i][k] = Pending
    /\ IF outcome = "error"
       THEN /\ Reject(i)
            /\ UNCHANGED replaced
       ELSE LET value == IF outcome = "null" THEN Null
                         ELSE Str(Reply(prompts[i][k]))
                results == PromiseAllStore(completions[i], k, value)
            IN  /\ completions' = [completions EXCEPT ![i] = results]
                /\ UNCHANGED prompts
                /\ IF \A j \in 1..Len(results) : results[j] # Pending
                   THEN /\ replaced' = [replaced EXCEPT ![i] =
                               Replacement(command[i], multiple[i],
                                           currentSelection[i], results)]
                        /\ pc' = [pc EXCEPT ![i] = "returned"]
                   ELSE UNCHANGED << pc, replaced >>
    /\ UNCHANGED << storeVars, started, inputVars, instructionObj, data,
                    operation, modified >>

\* the handler's promise has settled; the slot is free for another invocation
Settled(i) ==
    /\ pc[i] \in { "returned", "rejected" }
    /\ pc' = [pc EXCEPT ![i] = "idle"]
    /\ command' = [command EXCEPT ![i] = "instruct"]
    /\ multiple' = [multiple EXCEPT ![i] = FALSE]
    /\ instruction' = [instruction EXCEPT ![i] = <<>>]
    /\ currentSelection' = [currentSelection EXCEPT ![i] = <<>>]
    /\ instructionObj' = [instructionObj EXCEPT ![i] = Undefined]
    /\ data' = [data EXCEPT ![i] = Undefined]
    /\ prompts' = [prompts EXCEPT ![i] = <<>>]
    /\ completions' = [completions EXCEPT ![i] = <<>>]
    /\ replaced' = [replaced EXCEPT ![i] = NotReplaced]
    /\ operation' = [operation EXCEPT ![i] = "none"]
    /\ modified' = [modified EXCEPT ![i] = 0]
    /\ UNCHANGED << storeVars, started >>

\* the steps of a handler in progress in slot i
Handler(i) ==
    \/ findInstructionResumes(i)
    \/ updateInstructionResumes(i)
    \/ appendInstructionResumes(i)
    \/ modifyResumes(i)
    \/ \E k \in 1..Len(completions[i]), outcome \in Outcomes :
          postSettles(i, k, outcome)
    \/ Settled(i)

\* Overlapping invocations on the store: the handlers of Slots in
\* progress at once, started by the commands "Instruct" and "Find
\* Instruction" with nothing selected in the editor (no store operation
\* reads the selection or the multiple flag)
Next ==
    \/ onload
    \/ Tick
    \/ \E i \in Slots : onSubmit(i, FALSE, <<>>)
    \/ \E i \in Slots : onChooseSuggestion(i, FALSE, <<>>)
    \/ \E i \in Slots : Handler(i)

Spec == Init /\ [][Next]_vars

\* One invocation at a time, with every selection and every command
NextSelection ==
    \/ onload
    \/ Tick
    \/ \E mult \in BOOLEAN, selection \in Selections :
          onSubmit(1, mult, selection)
    \/ \E mult \in BOOLEAN, selection \in Selections :
          onChooseSuggestion(1, mult, selection)
    \/ Handler(1)

SpecSelection == Init /\ [][NextSelection]_vars


\* One invocation of the command "Instruct" at a time, in a vault where the
\* data file may change under the plugin and a write may fail
NextAppend ==
    \/ onload
    \/ Tick
    \/ \E content \in { FileAbsent, BootstrapContent } : vaultChanges(content)
    \/ onSubmit(1, FALSE, <<>>)
    \/ Handler(1)
    \/ modifyFails(1)

SpecAppend == Init /\ [][NextAppend]_vars

\* ------------------------------------------------------------------ claims
StorePhases ==
    { "findInstruction", "updateInstruction", "appendInstruction",
      "update.modify", "append.modify" }
Ended == { "returned", "rejected" }

\* the records of the persisted collection (none while the file does not parse)
Stored == IF Parses(file) THEN JSONparse(file).instructions ELSE <<>>

\* the 1-based position of the first record whose text matches, 0 when none
RECURSIVE FirstMatchFrom(_, _, _)
FirstMatchFrom(instructions, text, k) ==
    IF k > Len(instructions) THEN 0
    ELSE IF toLowerCase(instructions[k].text) = toLowerCase(text) THEN k
    ELSE FirstMatchFrom(instructions, text, k + 1)
FirstMatch(instructions, text) == FirstMatchFrom(instructions, text, 1)

\* slot i is about to write back a reuse that nothing disturbed: the file is
\* still what the invocation found and loaded
UndisturbedReuse(i) ==
    /\ pc[i] = "update.modify"
    /\ Parses(file)
    /\ FirstMatch(Stored, instruction[i]) > 0
    /\ instructionObj[i] =
          [Stored[FirstMatch(Stored, instruction[i])] EXCEPT !.usageCount = @ + 1]
    /\ data[i] = JSONstringify(updateInstruction(JSONparse(file), instructionObj[i]))

\* C1: one invocation with a text that matches an existing record (any case
\* variant) increments that record's usageCount by exactly one and leaves the
\* number of records unchanged.
C1_ReuseIncrementsThatRecord ==
    [][\A i \in Slots :
          (UndisturbedReuse(i) /\ pc'[i] = "post")
          => LET k == FirstMatch(Stored, instruction[i])
             IN  /\ Len(Stored') = Len(Stored)
                 /\ Stored'[k].usageCount = Stored[k].usageCount + 1]_vars

\* C2: every invocation with an active document performs the store
\* bookkeeping exactly once: once it is past the store calls (or has ended),
\* it has called updateInstruction or appendInstruction and written the file
\* once.
C2_BookkeepingExactlyOnce ==
    \A i \in Slots :
        pc[i] \in { "post" } \cup Ended
        => operation[i] \in { "update", "append" } /\ modified[i] = 1

\* C3: within one invocation the store bookkeeping, its file write included,
\* has completed before the first completion request is issued: once
\* requests are issued the handler is in no store call, no write is
\* outstanding, and a store mutation it called has written the file.
C3_BookkeepingBeforeRequests ==
    \A i \in Slots :
        prompts[i] # <<>>
        => /\ pc[i] \notin StorePhases
           /\ data[i] = Undefined
           /\ operation[i] # "none" => modified[i] = 1

C3_Witness ==
    \E i \in Slots :
        /\ pc[i] = "post" /\ multiple[i] /\ Len(prompts[i]) = 3
        /\ operation[i] = "update" /\ modified[i] = 1

\* the text multiple mode is to build when exactly the requests of the
\* chunks in `answered` got a completion: the chunks in their original order
RECURSIVE InChunkOrder(_, _, _, _)
InChunkOrder(text, selectionChunks, answered, k) ==
    IF k > Len(selectionChunks) THEN <<>>
    ELSE (IF k \notin answered THEN <<>>
          ELSE IF selectionChunks[k] # <<>>
          THEN selectionChunks[k] \o <<NL>>
               \o Reply(text \o Delimiter \o selectionChunks[k]) \o <<NL, NL>>
          ELSE Reply(text \o Delimiter \o selectionChunks[k]))
         \o InChunkOrder(text, selectionChunks, answered, k + 1)

\* C4: in multiple mode with a non-empty selection one request is issued per
\* chunk of the selection split on newlines, all of them together (in flight
\* at once), result slot k holds the answer to the request of chunk k
\* whatever the order of settling, and the replacement text is assembled in
\* chunk order.
C4_OneRequestPerChunkInOrder ==
    \A i \in Slots :
        (multiple[i] /\ currentSelection[i] # <<>> /\ prompts[i] # <<>>)
        => LET selectionChunks == Split(currentSelection[i])
               n == Len(selectionChunks)
           IN  /\ Len(prompts[i]) = n
               /\ Len(completions[i]) = n
               /\ \A k \in 1..n :
                     /\ prompts[i][k] =
                           instruction[i] \o Delimiter \o selectionChunks[k]
                     /\ completions[i][k] \in
                           { Pending, Null, Str(Reply(prompts[i][k])) }
               /\ pc[i] = "returned"
                  => \E answered \in SUBSET (1..n) :
                        replaced[i] = Str(InChunkOrder(instruction[i],
                                            selectionChunks, answered, 1))

C4_Witness ==
    \E i \in Slots :
        /\ pc[i] = "returned" /\ multiple[i]
        /\ currentSelection[i] = <<"x", NL, "y", NL>>
        /\ Len(prompts[i]) = 3
        /\ replaced[i] = Str(InChunkOrder(instruction[i],
                               Split(currentSelection[i]), {1, 2, 3}, 1))

\* C5: in multiple mode, when the request of one chunk fails the results of
\* the other chunks are still used: an invocation that has ended and got a
\* completion for some chunk has replaced the selection.
C5_FailedChunkKeepsTheOthers ==
    \A i \in Slots :
        (multiple[i] /\ currentSelection[i] # <<>> /\ pc[i] \in Ended
            /\ \E k \in 1..Len(completions[i]) : Truthy(completions[i][k]))
        => replaced[i] # NotReplaced

\* C6: in single mode with a non-empty selection the selection is replaced
\* by the selection, a newline and the completion text, and a slot without a
\* completion contributes nothing.
C6_SingleModeReplacement ==
    \A i \in Slots :
        (~multiple[i] /\ currentSelection[i] # <<>> /\ pc[i] = "returned")
        => replaced[i] = Str(currentSelection[i] \o <<NL>> \o
                (IF completions[i][1].t = "string" THEN completions[i][1].s
                 ELSE <<>>))

\* C7: all record ids of the persisted collection are pairwise distinct.
C7_IdsPairwiseDistinct ==
    \A j, k \in 1..Len(Stored) : j # k => Stored[j].id # Stored[k].id

\* C8: no record's persisted usageCount decreases from one state to the next
\* (a record being one id with one text).
C8_UsageCountNeverDecreases ==
    [][\A j \in 1..Len(Stored), k \in 1..Len(Stored') :
          (Stored[j].id = Stored'[k].id /\ Stored[j].text = Stored'[k].text)
          => Stored'[k].usageCount >= Stored[j].usageCount]_vars

\* C9: from plugin load onward the persisted document is a single JSON
\* object with exactly one key, instructions.
C9_DocumentIsOneKeyObject ==
    loaded => Parses(file) /\ DOMAIN JSONparse(file) = { "instructions" }

\* C10: writes are whole-document and unguarded: a write puts in the file
\* exactly the copy the invocation loaded and mutated, whatever was written
\* since it loaded.
C10_WriteIsTheInvocationsOwnCopy ==
    [][\A i \in Slots :
          (pc[i] \in { "update.modify", "append.modify" } /\ pc'[i] = "post")
          => file' = data[i]]_vars

\* two overlapping appends of different texts have both written, and the
\* record of one of them is not in the file: its write was discarded
C10_Witness ==
    \E i, j \in Slots :
        /\ i # j
        /\ operation[i] = "append" /\ modified[i] = 1
        /\ operation[j] = "append" /\ modified[j] = 1
        /\ toLowerCase(instruction[i]) # toLowerCase(instruction[j])
        /\ FirstMatch(Stored, instruction[i]) = 0
        /\ FirstMatch(Stored, instruction[j]) > 0


\* C11: whenever updateInstruction is called, the collection it loads holds
\* a record with the id of the instruction supplied: findIndex never yields
\* -1.
C11_UpdateFindsTheId ==
    [][\A i \in Slots :
          (pc[i] = "updateInstruction" /\ pc'[i] = "update.modify")
          => findIndex(Stored, instructionObj[i].id) # -1]_vars

\* C14: starting from a collection without two records of case-insensitively
\* equal text, the persisted collection never holds two such records.
C14_TextsStayDistinct ==
    \A j, k \in 1..Len(Stored) :
        j # k => toLowerCase(Stored[j].text) # toLowerCase(Stored[k].text)


\* the chunks an invocation sends: the chunks of the selection in multiple
\* mode, else the selection as one chunk (empty when nothing is selected)
ChunksOf(i) ==
    IF currentSelection[i] # <<>> /\ multiple[i]
    THEN Split(currentSelection[i])
    ELSE << currentSelection[i] >>

\* C12 (as claimed): the payload of a chunk is the instruction, the delimiter
\* and the chunk, and the delimiter is omitted whenever the chunk is empty:
\* the payload of an empty chunk is exactly the instruction.
C12_DelimiterOmittedForEmptyChunk ==
    \A i \in Slots :
        prompts[i] # <<>>
        => /\ Len(prompts[i]) = Len(ChunksOf(i))
           /\ \A k \in 1..Len(prompts[i]) :
                 prompts[i][k] =
                    IF ChunksOf(i)[k] = <<>> THEN instruction[i]
                    ELSE instruction[i] \o Delimiter \o ChunksOf(i)[k]

\* C12 (amended): the delimiter is omitted only when nothing is selected,
\* where the payload is exactly the instruction; every chunk of a non-empty
\* selection, an empty chunk of multiple mode included, is sent as the
\* instruction, the delimiter and the chunk.
C12_DelimiterOmittedOnlyWithoutSelection ==
    \A i \in Slots :
        prompts[i] # <<>>
        => /\ Len(prompts[i]) = Len(ChunksOf(i))
           /\ \A k \in 1..Len(prompts[i]) :
                 prompts[i][k] =
                    IF currentSelection[i] = <<>> THEN instruction[i]
                    ELSE instruction[i] \o Delimiter \o ChunksOf(i)[k]

\* the request of the empty trailing chunk of "x\ny\n" is in flight: its
\* payload is the instruction followed by the delimiter
C12_Witness ==
    \E i \in Slots :
        /\ pc[i] = "post" /\ multiple[i]
        /\ currentSelection[i] = <<"x", NL, "y", NL>>
        /\ ChunksOf(i)[3] = <<>>
        /\ prompts[i][3] = instruction[i] \o Delimiter

\* C13: appendInstruction never surfaces a failure to its caller: when its
\* load fails (the data file is missing or its content does not parse) or its
\* write fails, it returns normally (the handler goes on to its completion
\* requests, it is not rejected), and the persisted document is left as it
\* was, without the new record.
C13_AppendNeverSurfacesFailure ==
    [][\A i \in Slots :
          (pc[i] \in { "appendInstruction", "append.modify" } /\ pc'[i] # pc[i])
          => /\ pc'[i] # "rejected"
             /\ ( \/ (pc[i] = "appendInstruction" /\ LoadFails(file))
                  \/ (pc[i] = "append.modify" /\ modified'[i] = modified[i]) )
                => (pc'[i] = "post" /\ file' = file)]_vars

\* appendInstruction was called on the content of first creation, which does
\* not parse, and has returned without a write
C13_Witness ==
    \E i \in Slots :
        /\ pc[i] = "post"
        /\ operation[i] = "append"
        /\ modified[i] = 0
        /\ file = BootstrapContent

====
